---- MODULE Spec2Model ----
(***************************************************************************)
(* ProtoToArgsParser (src/trace_processor/util/proto_to_args_parser.cc):   *)
(* the recursive, descriptor-driven decoder that turns a protozero message *)
(* into Delegate::Add* calls keyed by a dotted path, modelled as a state   *)
(* machine with an explicit call stack.                                    *)
(*                                                                         *)
(* std::string values are TLA+ strings (Len, \o and SubSeq act on them);   *)
(* base::Optional<T> is a record [has_value, value]; an optional returned  *)
(* by the descriptor pool is a set of at most one element.                 *)
(***************************************************************************)
EXTENDS Integers, Sequences, FiniteSets, TLC

VARIABLES
  overrides_,   \* ProtoToArgsParser::overrides_ : path -> ParsingOverride
  key_prefix_,  \* ProtoToArgsParser::key_prefix_ : Key{flat_key, key}
  stack,        \* the C++ call stack: ParseMessage / ParseField frames
  ret,          \* Optional<Status>: the value returned by the last call
  trace,        \* what the Delegate and the override handlers observed
  call          \* the arguments of the last call made on the parser

vars == <<overrides_, key_prefix_, stack, ret, trace, call>>

\* The largest number of wire fields (counted over all nesting levels) in
\* the bytes of the top-level ParseMessage calls that Calls enumerates.
MaxWire == 3

\* The largest number of paths that have a handler registered.
MaxOverrides == 1

\* The largest number of wire fields in the messages of the types A and D
\* that are enumerated next to the examples.
MaxFields == 1

----------------------------------------------------------------------------
\* base::Status and base::Optional

OkStatus == [ok |-> TRUE, message |-> ""]

ErrStatus(m) == [ok |-> FALSE, message |-> m]

nullopt == [has_value |-> FALSE, value |-> OkStatus]

Some(v) == [has_value |-> TRUE, value |-> v]

\* A null allowed_fields pointer, and a pointer to a vector of tags.
nullptr == [null |-> TRUE, tags |-> {}]

AllowedVector(tags) == [null |-> FALSE, tags |-> tags]

----------------------------------------------------------------------------
\* The descriptor pool the parser is constructed over.

FieldDescriptor(name, type, repeated, extension, resolved) ==
  [name |-> name, type |-> type, is_repeated |-> repeated,
   is_extension |-> extension, resolved_type_name |-> resolved]

\* M and C are the message types of the end-to-end example; M also nests
\* itself through the repeated field m.  C has a field of a type that
\* ParseSimpleField does not handle.  S holds a repeated enum field, an
\* extension and an enum field whose type U the pool does not have; E is
\* an enum type that names the value 0 only.  A holds one field of every
\* declared type that is neither a message nor an enum (no field has the
\* tag 9).  D nests itself and holds a message field whose type N the
\* pool does not have.
pool_ ==
  [ M |-> [ fields |->
              ( 1 :> FieldDescriptor("x", "TYPE_INT32", FALSE, FALSE, "")
             @@ 2 :> FieldDescriptor("y", "TYPE_STRING", TRUE, FALSE, "")
             @@ 3 :> FieldDescriptor("child", "TYPE_MESSAGE", FALSE, FALSE, "C")
             @@ 4 :> FieldDescriptor("m", "TYPE_MESSAGE", TRUE, FALSE, "M") ),
            enum_values |-> <<>> ],
    C |-> [ fields |->
              ( 1 :> FieldDescriptor("flag", "TYPE_BOOL", FALSE, FALSE, "")
             @@ 2 :> FieldDescriptor("g", "TYPE_GROUP", FALSE, FALSE, "") ),
            enum_values |-> <<>> ],
    S |-> [ fields |->
              ( 1 :> FieldDescriptor("e", "TYPE_ENUM", TRUE, FALSE, "E")
             @@ 2 :> FieldDescriptor("ext", "TYPE_UINT32", FALSE, TRUE, "")
             @@ 3 :> FieldDescriptor("u", "TYPE_ENUM", FALSE, FALSE, "U") ),
            enum_values |-> <<>> ],
    E |-> [ fields |-> <<>>,
            enum_values |-> ( 0 :> "ZERO" ) ],
    A |-> [ fields |->
              ( 1 :> FieldDescriptor("i32", "TYPE_INT32", FALSE, FALSE, "")
             @@ 2 :> FieldDescriptor("sf32", "TYPE_SFIXED32", FALSE, FALSE, "")
             @@ 3 :> FieldDescriptor("f32", "TYPE_FIXED32", FALSE, FALSE, "")
             @@ 4 :> FieldDescriptor("s32", "TYPE_SINT32", FALSE, FALSE, "")
             @@ 5 :> FieldDescriptor("i64", "TYPE_INT64", FALSE, FALSE, "")
             @@ 6 :> FieldDescriptor("sf64", "TYPE_SFIXED64", FALSE, FALSE, "")
             @@ 7 :> FieldDescriptor("f64", "TYPE_FIXED64", FALSE, FALSE, "")
             @@ 8 :> FieldDescriptor("s64", "TYPE_SINT64", FALSE, FALSE, "")
             @@ 10 :> FieldDescriptor("u32", "TYPE_UINT32", FALSE, FALSE, "")
             @@ 11 :> FieldDescriptor("u64", "TYPE_UINT64", FALSE, FALSE, "")
             @@ 12 :> FieldDescriptor("b", "TYPE_BOOL", FALSE, FALSE, "")
             @@ 13 :> FieldDescriptor("d", "TYPE_DOUBLE", FALSE, FALSE, "")
             @@ 14 :> FieldDescriptor("f", "TYPE_FLOAT", FALSE, FALSE, "")
             @@ 15 :> FieldDescriptor("s", "TYPE_STRING", FALSE, FALSE, "")
             @@ 16 :> FieldDescriptor("raw", "TYPE_BYTES", FALSE, FALSE, "") ),
            enum_values |-> <<>> ],
    D |-> [ fields |->
              ( 1 :> FieldDescriptor("lost", "TYPE_MESSAGE", FALSE, FALSE, "N")
             @@ 2 :> FieldDescriptor("n", "TYPE_INT64", FALSE, FALSE, "")
             @@ 3 :> FieldDescriptor("d", "TYPE_MESSAGE", FALSE, FALSE, "D") ),
            enum_values |-> <<>> ] ]

\* DescriptorPool::FindDescriptorIdx: the index of the descriptor named
\* type, if the pool has one.
FindDescriptorIdx(type) == {type} \cap DOMAIN pool_

\* ProtoDescriptor::FindFieldByTag
FindFieldByTag(descriptor, id) ==
  IF id \in DOMAIN descriptor.fields THEN {descriptor.fields[id]} ELSE {}

\* ProtoDescriptor::FindEnumString
FindEnumString(descriptor, value) ==
  IF value \in DOMAIN descriptor.enum_values
  THEN {descriptor.enum_values[value]} ELSE {}

----------------------------------------------------------------------------
\* protozero::Field: a wire field is its id and its payload, a varint
\* (int) or a length-delimited span read as characters (str) or as an
\* embedded message (bytes).  Payload integers stay below 2^31, where the
\* 32- and 64-bit accessors agree with the varint.

WireField(id, int, str, bytes) ==
  [id |-> id, int |-> int, str |-> str, bytes |-> bytes]

as_int32(field)  == field.int
as_int64(field)  == field.int
as_uint32(field) == field.int
as_uint64(field) == field.int
as_bool(field)   == field.int # 0
as_double(field) == field.int
as_float(field)  == field.int
as_string(field) == field.str
as_bytes(field)  == field.bytes

\* Zig-zag decoding: (n >> 1) ^ -(n & 1)
as_sint32(field) ==
  IF field.int % 2 = 0 THEN field.int \div 2 ELSE -((field.int + 1) \div 2)

as_sint64(field) == as_sint32(field)

----------------------------------------------------------------------------
\* The arguments of a top-level ParseMessage call.

\* The payloads a field of a non-message declared type is encoded with.
Payloads(field_descriptor) ==
  CASE field_descriptor.type = "TYPE_ENUM"   -> {[int |-> 0, str |-> ""],
                                                 [int |-> 1, str |-> ""]}
    [] field_descriptor.type = "TYPE_STRING" -> {[int |-> 0, str |-> "p"]}
    [] field_descriptor.type = "TYPE_BYTES"  -> {[int |-> 0, str |-> "p"]}
    [] field_descriptor.type = "TYPE_BOOL"   -> {[int |-> 1, str |-> ""]}
    [] field_descriptor.type = "TYPE_INT32"  -> {[int |-> 5, str |-> ""]}
    [] OTHER                                 -> {[int |-> 7, str |-> ""]}

RECURSIVE Encodings(_, _)
RECURSIVE FieldEncodings(_, _)

\* The encodings of a message of the named type that hold exactly n wire
\* fields, those of embedded messages included.  A type the pool does not
\* have is encoded as the empty span.
Encodings(type, n) ==
  IF n = 0 THEN {<<>>}
  ELSE IF type \notin DOMAIN pool_ THEN {}
  ELSE UNION { { <<f>> \o rest : f \in FieldEncodings(type, k),
                                 rest \in Encodings(type, n - k) }
               : k \in 1..n }

\* The wire fields of a message of the named type that take k wire fields:
\* one per known tag, and tag 9, which no descriptor has.
FieldEncodings(type, k) ==
  LET fields == pool_[type].fields
  IN  UNION { IF fields[id].type = "TYPE_MESSAGE"
              THEN { WireField(id, 0, "", m) :
                       m \in Encodings(fields[id].resolved_type_name, k - 1) }
              ELSE IF k = 1
              THEN { WireField(id, p.int, p.str, <<>>) :
                       p \in Payloads(fields[id]) }
              ELSE {}
              : id \in DOMAIN fields }
      \cup (IF k = 1 THEN {WireField(9, 0, "", <<>>)} ELSE {})

\* Type names a caller passes: three the pool has and one it does not.
TypeNames == {"M", "C", "S", "N"}

\* The allowlists a caller passes: none, or the tag 3 alone.
AllowedFields == {nullptr, AllowedVector({3})}

\* ParseMessage's arguments: the bytes of a message of at most MaxWire wire
\* fields, the name of its type, and the allowlist.
Calls ==
  UNION { { [cb |-> cb, type |-> type, allowed_fields |-> allowed] :
              cb \in UNION { Encodings(type, n) : n \in 0..MaxWire },
              allowed \in AllowedFields }
          : type \in TypeNames }

\* The end-to-end example: M with x = 5, y = [p, q], child.flag = true.
EndToEnd ==
  [cb |-> << WireField(1, 5, "", <<>>),
             WireField(2, 0, "p", <<>>),
             WireField(2, 0, "q", <<>>),
             WireField(3, 0, "", <<WireField(1, 1, "", <<>>)>>) >>,
   type |-> "M", allowed_fields |-> nullptr]

\* Messages longer and deeper than those of Calls: the end-to-end example;
\* two m that hold y twice and once; y before, inside and after an m; a
\* field of an unsupported type three messages down; an unknown tag; an
\* allowlist; and in D a message field of the unknown type N one message
\* down.
Examples ==
  LET x == WireField(1, 5, "", <<>>)
      y(str) == WireField(2, 0, str, <<>>)
      child(bytes) == WireField(3, 0, "", bytes)
      m(bytes) == WireField(4, 0, "", bytes)
      flag == WireField(1, 1, "", <<>>)
      g == WireField(2, 7, "", <<>>)
      unknown == WireField(9, 0, "", <<>>)
      lost == WireField(1, 0, "", <<>>)
      n == WireField(2, 7, "", <<>>)
      d(bytes) == WireField(3, 0, "", bytes)
      Message(cb) == [cb |-> cb, type |-> "M", allowed_fields |-> nullptr]
  IN  { EndToEnd,
        Message(<<m(<<y("p"), y("q")>>), m(<<y("p")>>)>>),
        Message(<<y("p"), m(<<y("q")>>), y("p")>>),
        Message(<<m(<<m(<<child(<<g, flag>>)>>)>>), x>>),
        Message(<<unknown, m(<<child(<<flag>>)>>)>>),
        [cb |-> <<x, child(<<flag>>)>>, type |-> "M",
         allowed_fields |-> AllowedVector({3})],
        [cb |-> <<n, d(<<n, lost>>), n>>, type |-> "D",
         allowed_fields |-> nullptr] }

\* The examples, and every message of at most MaxFields wire fields of the
\* types A and D and of the type N the pool does not have.
ExampleCalls ==
  Examples
  \cup UNION { { [cb |-> cb, type |-> type, allowed_fields |-> nullptr] :
                  cb \in UNION { Encodings(type, n) : n \in 0..MaxFields } }
              : type \in {"A", "D", "N"} }

\* Paths around m.child: a proper prefix, the path, a longer path and the
\* indexed form of the path.
LookupPaths == {"m", "m.child", "m.child.flag", "m[0].child"}

\* The paths handlers are registered at, and the handlers: each returns a
\* success status, a failure status, or no status.
OverridePaths == {"m.child", "m.x"}

ParsingOverrides == {"ReturnsOk", "ReturnsErr", "ReturnsNullopt"}

\* ParsingOverride: what the handler func returns for a field.
InvokeOverride(func, field) ==
  CASE func = "ReturnsOk"  -> Some(OkStatus)
    [] func = "ReturnsErr" -> Some(ErrStatus("override failed"))
    [] OTHER               -> nullopt

----------------------------------------------------------------------------
\* Helpers of the parser.

Digits == <<"0", "1", "2", "3", "4", "5", "6", "7", "8", "9">>

RECURSIVE to_string(_)
\* std::to_string of a non-negative int
to_string(n) ==
  IF n < 10 THEN Digits[n + 1]
  ELSE to_string(n \div 10) \o Digits[(n % 10) + 1]

\* ScopedStringAppender's constructor without the dest->empty() test: the
\* separator is appended to an empty dest too.
ScopedStringAppender_AlwaysDot(append, dest) ==
  [old_size_ |-> Len(dest), dest |-> (dest \o ".") \o append]

\* ScopedStringAppender's constructor: dest after the append, and the
\* old_size_ the object keeps.
ScopedStringAppender(append, dest) ==
  [old_size_ |-> Len(dest),
   dest |-> IF dest = "" THEN append ELSE (dest \o ".") \o append]

\* ScopedStringAppender with a destructor that erases nothing.
DestroyScopedStringAppender_NoErase(old_size_, dest) == dest

\* ScopedStringAppender's destructor: dest_->erase(old_size_)
DestroyScopedStringAppender(old_size_, dest) == SubSeq(dest, 1, old_size_)

\* ParseField's prefix_part: the name, and [number] if the field is repeated.
PrefixPart(field_descriptor, repeated_field_number) ==
  IF field_descriptor.is_repeated
  THEN ((field_descriptor.name \o "[") \o to_string(repeated_field_number))
         \o "]"
  ELSE field_descriptor.name

\* is_allowed without the is_extension() test.
IsAllowed_NoExtension(field_descriptor, allowed_fields, id) ==
  \/ allowed_fields.null
  \/ id \in allowed_fields.tags

\* ParseMessage's is_allowed
IsAllowed(field_descriptor, allowed_fields, id) ==
  \/ field_descriptor.is_extension
  \/ allowed_fields.null
  \/ id \in allowed_fields.tags

\* repeated_field_index[id]: the counter, 0 for a tag not yet in the map.
IndexOf(repeated_field_index, id) ==
  IF id \in DOMAIN repeated_field_index THEN repeated_field_index[id] ELSE 0

\* repeated_field_index with the increment left out.
CountField_NoIncrement(repeated_field_index, field_descriptor, id) ==
  repeated_field_index

\* repeated_field_index after ParseField succeeded for the tag id.
CountField(repeated_field_index, field_descriptor, id) ==
  IF field_descriptor.is_repeated
  THEN (id :> (IndexOf(repeated_field_index, id) + 1)) @@ repeated_field_index
  ELSE repeated_field_index

\* AddParsingOverride keeping the handler a path already has, as
\* overrides_.emplace(field, func) does.
Registered_KeepsFirst(field, func) == overrides_ @@ (field :> func)

\* overrides_ after overrides_[std::move(field)] = std::move(func)
Registered(field, func) == (field :> func) @@ overrides_

\* The arguments of an AddParsingOverride call, as call keeps them.
AddParsingOverrideCall(field, func) ==
  [cb |-> <<>>, type |-> "", allowed_fields |-> nullptr,
   field |-> field, func |-> func]

\* MaybeApplyOverride looking the handler up at key, not at flat_key.
MaybeApplyOverride_ByKey(key_prefix, field) ==
  IF key_prefix.key \notin DOMAIN overrides_
  THEN [invoked |-> <<>>, status |-> nullopt]
  ELSE [invoked |-> <<overrides_[key_prefix.key]>>,
        status |-> InvokeOverride(overrides_[key_prefix.key], field)]

\* MaybeApplyOverride taking a handler that returns no status as a success.
MaybeApplyOverride_NulloptIsOk(key_prefix, field) ==
  IF key_prefix.flat_key \notin DOMAIN overrides_
  THEN [invoked |-> <<>>, status |-> nullopt]
  ELSE [invoked |-> <<overrides_[key_prefix.flat_key]>>,
        status |->
          LET status == InvokeOverride(overrides_[key_prefix.flat_key], field)
          IN  IF status.has_value THEN status ELSE Some(OkStatus)]

\* MaybeApplyOverride, with key_prefix_ as the two appenders left it: the
\* handler it invoked, if any, and the Optional<Status> it returns.
MaybeApplyOverride(key_prefix, field) ==
  IF key_prefix.flat_key \notin DOMAIN overrides_
  THEN [invoked |-> <<>>, status |-> nullopt]
  ELSE [invoked |-> <<overrides_[key_prefix.flat_key]>>,
        status |-> InvokeOverride(overrides_[key_prefix.flat_key], field)]

\* A Delegate call: the method, the Key snapshot and the value.
DelegateCall(fn, key_prefix, value) ==
  [fn |-> fn, key |-> key_prefix, value |-> value]

\* The TYPE_ENUM case emitting the name FindEnumString gave without
\* testing that it gave one: the empty string for a value with no name.
ParseEnumField_NoFallback(descriptor, field, key_prefix) ==
  LET opt_enum_descriptor_idx ==
        FindDescriptorIdx(descriptor.resolved_type_name)
  IN  IF opt_enum_descriptor_idx = {}
      THEN DelegateCall("AddInteger", key_prefix, as_int32(field))
      ELSE LET opt_enum_string ==
                 FindEnumString(
                   pool_[CHOOSE i \in opt_enum_descriptor_idx : TRUE],
                   as_int32(field))
           IN  IF opt_enum_string = {}
               THEN DelegateCall("AddString", key_prefix, "")
               ELSE DelegateCall("AddString", key_prefix,
                                 CHOOSE str \in opt_enum_string : TRUE)

\* ParseSimpleField's TYPE_ENUM case: the Delegate call it makes.
ParseEnumField(descriptor, field, key_prefix) ==
  LET opt_enum_descriptor_idx ==
        FindDescriptorIdx(descriptor.resolved_type_name)
  IN  IF opt_enum_descriptor_idx = {}
      THEN DelegateCall("AddInteger", key_prefix, as_int32(field))
      ELSE LET opt_enum_string ==
                 FindEnumString(
                   pool_[CHOOSE i \in opt_enum_descriptor_idx : TRUE],
                   as_int32(field))
           IN  IF opt_enum_string = {}
               THEN DelegateCall("AddInteger", key_prefix, as_int32(field))
               ELSE DelegateCall("AddString", key_prefix,
                                 CHOOSE str \in opt_enum_string : TRUE)

\* The TYPE_UINT32 and TYPE_UINT64 cases emitting through AddInteger.
ParseUnsignedField_AsInteger(descriptor, field, key_prefix) ==
  DelegateCall("AddInteger", key_prefix,
               IF descriptor.type = "TYPE_UINT32"
               THEN as_uint32(field) ELSE as_uint64(field))

\* ParseSimpleField's TYPE_UINT32 and TYPE_UINT64 cases: the Delegate call
\* they make.
ParseUnsignedField(descriptor, field, key_prefix) ==
  DelegateCall("AddUnsignedInteger", key_prefix,
               IF descriptor.type = "TYPE_UINT32"
               THEN as_uint32(field) ELSE as_uint64(field))

\* The default case returning success.
UnsupportedFieldType_Ok(descriptor) == OkStatus

\* ParseSimpleField's default case: the failure it returns.
UnsupportedFieldType(descriptor) ==
  ErrStatus(
    ((("Tried to write value of type field " \o descriptor.name)
       \o " (in proto type ") \o descriptor.resolved_type_name)
       \o ") which has type enum " \o descriptor.type)

\* ParseSimpleField: the Delegate calls it makes and the status it returns.
ParseSimpleField(descriptor, field, key_prefix) ==
  LET Emit(fn, value) ==
        [calls |-> <<DelegateCall(fn, key_prefix, value)>>,
         status |-> OkStatus]
  IN
  CASE descriptor.type \in {"TYPE_INT32", "TYPE_SFIXED32", "TYPE_FIXED32"} ->
         Emit("AddInteger", as_int32(field))
    [] descriptor.type = "TYPE_SINT32" -> Emit("AddInteger", as_sint32(field))
    [] descriptor.type \in {"TYPE_INT64", "TYPE_SFIXED64", "TYPE_FIXED64"} ->
         Emit("AddInteger", as_int64(field))
    [] descriptor.type = "TYPE_SINT64" -> Emit("AddInteger", as_sint64(field))
    [] descriptor.type \in {"TYPE_UINT32", "TYPE_UINT64"} ->
         [calls |-> <<ParseUnsignedField(descriptor, field, key_prefix)>>,
          status |-> OkStatus]
    [] descriptor.type = "TYPE_BOOL"   -> Emit("AddBoolean", as_bool(field))
    [] descriptor.type = "TYPE_DOUBLE" -> Emit("AddDouble", as_double(field))
    [] descriptor.type = "TYPE_FLOAT"  -> Emit("AddDouble", as_float(field))
    [] descriptor.type = "TYPE_STRING" -> Emit("AddString", as_string(field))
    [] descriptor.type = "TYPE_ENUM"   ->
         [calls |-> <<ParseEnumField(descriptor, field, key_prefix)>>,
          status |-> OkStatus]
    [] OTHER -> [calls |-> <<>>, status |-> UnsupportedFieldType(descriptor)]

----------------------------------------------------------------------------
\* The call stack.

Top == stack[Len(stack)]

Pop == SubSeq(stack, 1, Len(stack) - 1)

SetTop(frame) == [stack EXCEPT ![Len(stack)] = frame]

\* A ParseMessage frame whose repeated_field_index is that of the
\* ParseMessage call it was called from: one map for the parser, not one
\* for each call.
ParseMessageFrame_SharedCounters(cb, type, allowed_fields) ==
  [fn |-> "ParseMessage", pc |-> "find", cb |-> cb, type |-> type,
   allowed_fields |-> allowed_fields, pos |-> 1,
   repeated_field_index |->
     IF Len(stack) < 2 THEN [id \in {} |-> 0]
     ELSE stack[Len(stack) - 1].repeated_field_index,
   entry |-> key_prefix_]

\* A ParseMessage frame at its first line: the arguments, the decoder's
\* position in cb, the repeated_field_index map, and key_prefix_ as the
\* call found it (kept to state the claims, the program does not read it).
ParseMessageFrame(cb, type, allowed_fields) ==
  [fn |-> "ParseMessage", pc |-> "find", cb |-> cb, type |-> type,
   allowed_fields |-> allowed_fields, pos |-> 1,
   repeated_field_index |-> [id \in {} |-> 0], entry |-> key_prefix_]

\* A ParseField frame at its first line: the arguments, the old_size_ of
\* its two ScopedStringAppenders once constructed, and key_prefix_ as the
\* call found it.
ParseFieldFrame(field_descriptor, repeated_field_number, field) ==
  [fn |-> "ParseField", pc |-> "enter",
   field_descriptor |-> field_descriptor,
   repeated_field_number |-> repeated_field_number, field |-> field,
   scoped_prefix |-> 0, scoped_flat_key_prefix |-> 0, entry |-> key_prefix_]

\* The recursive call handing on the allowed_fields of the ParseMessage
\* call that called ParseField.
RecursiveCall_SameAllowlist(field_descriptor, field) ==
  [cb |-> as_bytes(field), type |-> field_descriptor.resolved_type_name,
   allowed_fields |-> stack[Len(stack) - 1].allowed_fields]

\* The recursive call made on an empty span.
RecursiveCall_NoBytes(field_descriptor, field) ==
  [cb |-> <<>>, type |-> field_descriptor.resolved_type_name,
   allowed_fields |-> nullptr]

\* The arguments of ParseField's recursive ParseMessage call.
RecursiveCall(field_descriptor, field) ==
  [cb |-> as_bytes(field), type |-> field_descriptor.resolved_type_name,
   allowed_fields |-> nullptr]

\* The ParseField calls in progress, outermost first, each by its arguments.
RECURSIVE Chain(_)
Chain(s) ==
  IF s = <<>> THEN <<>>
  ELSE LET f == s[Len(s)]
           rest == Chain(SubSeq(s, 1, Len(s) - 1))
       IN  IF f.fn = "ParseField"
           THEN Append(rest,
                       [field_descriptor |-> f.field_descriptor,
                        repeated_field_number |-> f.repeated_field_number,
                        field |-> f.field])
           ELSE rest

\* A trace entry: a Delegate call or a handler invocation, and the
\* ParseField calls that were in progress when it was made.
Observed(e) == [fn |-> e.fn, key |-> e.key, value |-> e.value,
                at |-> Chain(stack)]

RECURSIVE ObservedAll(_)
ObservedAll(calls) ==
  IF calls = <<>> THEN <<>>
  ELSE <<Observed(Head(calls))>> \o ObservedAll(Tail(calls))

\* The two appenders ParseField constructs, and key_prefix_ after them.
Scoped ==
  [key |-> ScopedStringAppender(
             PrefixPart(Top.field_descriptor, Top.repeated_field_number),
             key_prefix_.key),
   flat_key |-> ScopedStringAppender(Top.field_descriptor.name,
                                     key_prefix_.flat_key)]

Appended == [flat_key |-> Scoped.flat_key.dest, key |-> Scoped.key.dest]

\* key_prefix_ after the two appenders of a ParseField frame are destroyed.
Destroyed(scoped_prefix, scoped_flat_key_prefix, key_prefix) ==
  [flat_key |-> DestroyScopedStringAppender(scoped_flat_key_prefix,
                                            key_prefix.flat_key),
   key |-> DestroyScopedStringAppender(scoped_prefix, key_prefix.key)]

\* MaybeApplyOverride as ParseField calls it.
Override == MaybeApplyOverride(Appended, Top.field)

\* The handler invocation MaybeApplyOverride makes, if it makes one.
Invocation ==
  IF Override.invoked = <<>> THEN <<>>
  ELSE <<Observed(DelegateCall("ParsingOverride", Appended,
                               Override.invoked[1]))>>

NoCall == [cb |-> <<>>, type |-> "", allowed_fields |-> nullptr]

Idle == stack = <<>> /\ ~ret.has_value

Done == stack = <<>> /\ ret.has_value

In(fn, pc) == stack # <<>> /\ Top.fn = fn /\ Top.pc = pc

----------------------------------------------------------------------------
Init ==
  /\ overrides_ = [path \in {} |-> "ReturnsOk"]
  /\ key_prefix_ = [flat_key |-> "", key |-> ""]
  /\ stack = <<>>
  /\ ret = nullopt
  /\ trace = <<>>
  /\ call = NoCall

\* AddParsingOverride(field, func) for a path among paths, between
\* top-level calls.
AddParsingOverrideAt(paths) ==
  /\ Idle
  /\ \E field \in paths, func \in ParsingOverrides :
       /\ Cardinality(DOMAIN overrides_ \cup {field}) <= MaxOverrides
       /\ overrides_' = Registered(field, func)
       /\ call' = AddParsingOverrideCall(field, func)
  /\ UNCHANGED <<key_prefix_, stack, ret, trace>>

AddParsingOverride == AddParsingOverrideAt(OverridePaths)

AddLookupOverride == AddParsingOverrideAt(LookupPaths)

\* A caller calls ParseMessage, with arguments among calls and a Delegate
\* that has seen no call yet.
CallParseMessageWith(calls) ==
  /\ Idle
  /\ \E c \in calls :
       /\ call' = c
       /\ stack' = <<ParseMessageFrame(c.cb, c.type, c.allowed_fields)>>
  /\ trace' = <<>>
  /\ UNCHANGED <<overrides_, key_prefix_, ret>>

CallParseMessage == CallParseMessageWith(Calls)

CallExample == CallParseMessageWith(ExampleCalls)

\* ParseMessage taking a type that has no descriptor for an empty message.
DescriptorNotFound_Succeeds ==
  /\ In("ParseMessage", "find")
  /\ FindDescriptorIdx(Top.type) = {}
  /\ stack' = Pop
  /\ ret' = Some(OkStatus)
  /\ UNCHANGED <<overrides_, key_prefix_, trace, call>>

\* ParseMessage, lines 79-82: the type has no descriptor.
DescriptorNotFound ==
  /\ In("ParseMessage", "find")
  /\ FindDescriptorIdx(Top.type) = {}
  /\ stack' = Pop
  /\ ret' = Some(ErrStatus("Failed to find proto descriptor"))
  /\ UNCHANGED <<overrides_, key_prefix_, trace, call>>

\* ParseMessage, lines 79-88: the descriptor is found, the decoder starts.
DescriptorFound ==
  /\ In("ParseMessage", "find")
  /\ FindDescriptorIdx(Top.type) # {}
  /\ stack' = SetTop([Top EXCEPT !.pc = "read"])
  /\ UNCHANGED <<overrides_, key_prefix_, ret, trace, call>>

\* ParseMessage, lines 89 and 115: ReadField finds no further field.
EndOfMessage ==
  /\ In("ParseMessage", "read")
  /\ Top.pos > Len(Top.cb)
  /\ stack' = Pop
  /\ ret' = Some(OkStatus)
  /\ UNCHANGED <<overrides_, key_prefix_, trace, call>>

\* ParseMessage failing on a tag that has no descriptor.
SkipUnknownField_Fails ==
  /\ In("ParseMessage", "read")
  /\ Top.pos <= Len(Top.cb)
  /\ FindFieldByTag(pool_[Top.type], Top.cb[Top.pos].id) = {}
  /\ stack' = Pop
  /\ ret' = Some(ErrStatus("Unknown field"))
  /\ UNCHANGED <<overrides_, key_prefix_, trace, call>>

\* ParseMessage going round the loop on a tag that has no descriptor
\* without reading the next field.
SkipUnknownField_NoAdvance ==
  /\ In("ParseMessage", "read")
  /\ Top.pos <= Len(Top.cb)
  /\ FindFieldByTag(pool_[Top.type], Top.cb[Top.pos].id) = {}
  /\ UNCHANGED vars

\* ParseMessage, lines 91-95: the tag has no descriptor.
SkipUnknownField ==
  /\ In("ParseMessage", "read")
  /\ Top.pos <= Len(Top.cb)
  /\ FindFieldByTag(pool_[Top.type], Top.cb[Top.pos].id) = {}
  /\ stack' = SetTop([Top EXCEPT !.pos = @ + 1])
  /\ UNCHANGED <<overrides_, key_prefix_, ret, trace, call>>

\* ParseMessage, lines 99-107: the field is not allowed.
SkipDisallowedField ==
  /\ In("ParseMessage", "read")
  /\ Top.pos <= Len(Top.cb)
  /\ LET f == Top.cb[Top.pos]
     IN  \E field \in FindFieldByTag(pool_[Top.type], f.id) :
           ~IsAllowed(field, Top.allowed_fields, f.id)
  /\ stack' = SetTop([Top EXCEPT !.pos = @ + 1])
  /\ UNCHANGED <<overrides_, key_prefix_, ret, trace, call>>

\* ParseMessage, lines 108-109: ParseField is called with the counter of
\* the tag, which repeated_field_index[] inserts if it is not there.
CallParseField ==
  /\ In("ParseMessage", "read")
  /\ Top.pos <= Len(Top.cb)
  /\ LET f == Top.cb[Top.pos]
     IN  \E field \in FindFieldByTag(pool_[Top.type], f.id) :
           /\ IsAllowed(field, Top.allowed_fields, f.id)
           /\ stack' =
                Append(
                  SetTop([Top EXCEPT
                    !.pc = "field",
                    !.repeated_field_index =
                       (f.id :> IndexOf(@, f.id)) @@ @]),
                  ParseFieldFrame(field,
                                  IndexOf(Top.repeated_field_index, f.id), f))
  /\ UNCHANGED <<overrides_, key_prefix_, ret, trace, call>>

\* ParseMessage without RETURN_IF_ERROR: the loop goes on after a failure.
ReturnIfError_Continue ==
  /\ In("ParseMessage", "field")
  /\ ~ret.value.ok
  /\ stack' = SetTop([Top EXCEPT !.pc = "read", !.pos = @ + 1])
  /\ ret' = nullopt
  /\ UNCHANGED <<overrides_, key_prefix_, trace, call>>

\* ParseMessage, line 108: RETURN_IF_ERROR returns ParseField's failure.
ReturnIfError ==
  /\ In("ParseMessage", "field")
  /\ ~ret.value.ok
  /\ stack' = Pop
  /\ UNCHANGED <<overrides_, key_prefix_, ret, trace, call>>

\* ParseMessage, lines 108-112: ParseField succeeded; the counter of a
\* repeated field is incremented and the loop goes on.
NextField ==
  /\ In("ParseMessage", "field")
  /\ ret.value.ok
  /\ LET f == Top.cb[Top.pos]
     IN  \E field \in FindFieldByTag(pool_[Top.type], f.id) :
           stack' = SetTop([Top EXCEPT
                      !.pc = "read", !.pos = @ + 1,
                      !.repeated_field_index = CountField(@, field, f.id)])
  /\ ret' = nullopt
  /\ UNCHANGED <<overrides_, key_prefix_, trace, call>>

\* ParseField, lines 123-144: the handler at the flat key returns a status,
\* which ParseField returns; the two appenders are destroyed.
ParseFieldOverride ==
  /\ In("ParseField", "enter")
  /\ Override.status.has_value
  /\ trace' = trace \o Invocation
  /\ key_prefix_' = Destroyed(Scoped.key.old_size_, Scoped.flat_key.old_size_,
                              Appended)
  /\ ret' = Some(Override.status.value)
  /\ stack' = Pop
  /\ UNCHANGED <<overrides_, call>>

\* ParseField, lines 123-153: no handler returns a status and the field is
\* a message: ParseMessage is called on its bytes.
ParseFieldMessage ==
  /\ In("ParseField", "enter")
  /\ ~Override.status.has_value
  /\ Top.field_descriptor.type = "TYPE_MESSAGE"
  /\ trace' = trace \o Invocation
  /\ key_prefix_' = Appended
  /\ LET c == RecursiveCall(Top.field_descriptor, Top.field)
         callee == [ParseMessageFrame(c.cb, c.type, c.allowed_fields)
                      EXCEPT !.entry = Appended]
     IN  stack' = Append(SetTop([Top EXCEPT
                           !.pc = "message",
                           !.scoped_prefix = Scoped.key.old_size_,
                           !.scoped_flat_key_prefix =
                              Scoped.flat_key.old_size_]),
                         callee)
  /\ UNCHANGED <<overrides_, ret, call>>

\* ParseField returning the failure of the recursive ParseMessage call
\* without undoing its two appends: a return that skips the cleanup.
ParseFieldReturn_LeaksOnFailure ==
  /\ In("ParseField", "message")
  /\ key_prefix_' = IF ret.value.ok
                    THEN Destroyed(Top.scoped_prefix,
                                   Top.scoped_flat_key_prefix, key_prefix_)
                    ELSE key_prefix_
  /\ stack' = Pop
  /\ UNCHANGED <<overrides_, ret, trace, call>>

\* ParseField, lines 151-153: the recursive ParseMessage returned; its
\* status is returned and the two appenders are destroyed.
ParseFieldReturn ==
  /\ In("ParseField", "message")
  /\ key_prefix_' = Destroyed(Top.scoped_prefix, Top.scoped_flat_key_prefix,
                              key_prefix_)
  /\ stack' = Pop
  /\ UNCHANGED <<overrides_, ret, trace, call>>

\* ParseField, lines 123-155: no handler returns a status and the field is
\* not a message: ParseSimpleField's status is returned and the two
\* appenders are destroyed.
ParseFieldSimple ==
  /\ In("ParseField", "enter")
  /\ ~Override.status.has_value
  /\ Top.field_descriptor.type # "TYPE_MESSAGE"
  /\ LET r == ParseSimpleField(Top.field_descriptor, Top.field, Appended)
     IN  /\ trace' = (trace \o Invocation) \o ObservedAll(r.calls)
         /\ ret' = Some(r.status)
  /\ key_prefix_' = Destroyed(Scoped.key.old_size_, Scoped.flat_key.old_size_,
                              Appended)
  /\ stack' = Pop
  /\ UNCHANGED <<overrides_, call>>

\* The top-level call has returned: the caller takes the status and lets
\* go of the Delegate.
CallerTakesResult ==
  /\ Done
  /\ ret' = nullopt
  /\ trace' = <<>>
  /\ call' = NoCall
  /\ UNCHANGED <<overrides_, key_prefix_, stack>>

Next ==
  \/ AddParsingOverride
  \/ CallParseMessage
  \/ DescriptorNotFound
  \/ DescriptorFound
  \/ EndOfMessage
  \/ SkipUnknownField
  \/ SkipDisallowedField
  \/ CallParseField
  \/ ReturnIfError
  \/ NextField
  \/ ParseFieldOverride
  \/ ParseFieldMessage
  \/ ParseFieldReturn
  \/ ParseFieldSimple
  \/ CallerTakesResult

Spec == Init /\ [][Next]_vars

\* The steps of the parser itself.
Parse ==
  \/ DescriptorNotFound
  \/ DescriptorFound
  \/ EndOfMessage
  \/ SkipUnknownField
  \/ SkipDisallowedField
  \/ CallParseField
  \/ ReturnIfError
  \/ NextField
  \/ ParseFieldOverride
  \/ ParseFieldMessage
  \/ ParseFieldReturn
  \/ ParseFieldSimple

\* The parser on the examples, with handlers at the paths around m.child.
ExampleNext ==
  \/ AddLookupOverride
  \/ CallExample
  \/ Parse
  \/ CallerTakesResult

ExampleSpec == Init /\ [][ExampleNext]_vars

\* A call on the parser runs on its caller's thread until it returns: a
\* step of the parser that can be taken is taken.
TerminationSpec == ExampleSpec /\ WF_vars(Parse)

----------------------------------------------------------------------------
\* What the claims are stated with.

Front(s) == SubSeq(s, 1, Len(s) - 1)

Last(s) == s[Len(s)]

\* The '.'-joined strings of a sequence.
RECURSIVE JoinDots(_)
JoinDots(segments) ==
  IF segments = <<>> THEN ""
  ELSE IF Len(segments) = 1 THEN segments[1]
  ELSE (JoinDots(Front(segments)) \o ".") \o Last(segments)

\* The segment of a ParseField call in key: name, or name[i] if repeated.
KeySegment(c) ==
  IF c.field_descriptor.is_repeated
  THEN ((c.field_descriptor.name \o "[") \o to_string(c.repeated_field_number))
         \o "]"
  ELSE c.field_descriptor.name

\* The Key a chain of ParseField calls stands for.
ExpectedKey(chain) ==
  [flat_key |-> JoinDots([i \in 1..Len(chain) |->
                            chain[i].field_descriptor.name]),
   key |-> JoinDots([i \in 1..Len(chain) |-> KeySegment(chain[i])])]

\* The number of '.'-separated segments of a string.
NumSegments(str) ==
  IF str = "" THEN 0
  ELSE 1 + Cardinality({i \in 1..Len(str) : SubSeq(str, i, i) = "."})

\* The frames whose appenders are constructed: all but a ParseField frame
\* at its first line.
Entered == IF In("ParseField", "enter") THEN Pop ELSE stack

\* The occurrences of the tag id among the first n wire fields of cb.
Occurrences(cb, id, n) == Cardinality({i \in 1..n : cb[i].id = id})

IsDelegateCall(e) == e.fn # "ParsingOverride"

\* The number of fields of tag 1 in the embedded messages of the fields of
\* tag 3 of cb.
RECURSIVE FlagsOfChildren(_)
FlagsOfChildren(cb) ==
  IF cb = <<>> THEN 0
  ELSE (IF Head(cb).id = 3
        THEN Occurrences(Head(cb).bytes, 1, Len(Head(cb).bytes)) ELSE 0)
       + FlagsOfChildren(Tail(cb))

----------------------------------------------------------------------------
\* C1: whenever a ParseField or ParseMessage call returns, on any exit path,
\* key_prefix_.key and key_prefix_.flat_key are what they were when that
\* call was entered.
C1_PathRestored ==
  [][(stack # <<>> /\ Len(stack') < Len(stack))
       => key_prefix_' = Top.entry]_vars

\* C1 witness: a failure inside a nested message has unwound through the
\* ParseField call of the top-level message field, after an emission made
\* under the longer prefix.
C1_Witness ==
  /\ Len(stack) = 1
  /\ In("ParseMessage", "field")
  /\ ret.has_value /\ ~ret.value.ok
  /\ Top.cb[Top.pos].bytes # <<>>
  /\ trace # <<>>
  /\ key_prefix_ = [flat_key |-> "", key |-> ""]

\* C2: every Delegate call and every handler invocation is made with key
\* the '.'-joined name / name[i] segments of the ParseField calls in
\* progress and flat_key the '.'-joined bare names, both of as many
\* segments as there are calls and with no leading '.'; and between the
\* calls key_prefix_ is the Key of the calls entered so far.
C2_PathExact ==
  /\ \A i \in 1..Len(trace) :
       /\ trace[i].key = ExpectedKey(trace[i].at)
       /\ NumSegments(trace[i].key.key) = Len(trace[i].at)
       /\ NumSegments(trace[i].key.flat_key) = Len(trace[i].at)
       /\ SubSeq(trace[i].key.key, 1, 1) # "."
       /\ SubSeq(trace[i].key.flat_key, 1, 1) # "."
  /\ key_prefix_ = ExpectedKey(Chain(Entered))

\* C2 witness: a handler was invoked for the message field child of the
\* first m and then, two levels down, flag was emitted.
C2_Witness ==
  /\ Len(trace) = 2
  /\ trace[1].fn = "ParsingOverride"
  /\ trace[1].key = [flat_key |-> "m.child", key |-> "m[0].child"]
  /\ trace[2].fn = "AddBoolean"
  /\ trace[2].key = [flat_key |-> "m.child.flag", key |-> "m[0].child.flag"]

\* C3: in every ParseMessage frame the counter of a repeated tag is the
\* number of its occurrences processed so far and the counter of any other
\* tag is 0, each ParseField call of a repeated field gets that number; and
\* a successful top-level call has emitted, for a repeated scalar field
\* with N processed occurrences, the keys name[0] .. name[N-1] in wire
\* order, all with flat_key name.
C3_RepeatedIndexing ==
  /\ \A k \in 1..Len(stack) :
       stack[k].fn = "ParseMessage" /\ stack[k].pc # "find" =>
         LET frame == stack[k]
             fields == pool_[frame.type].fields
             Processed(id) ==
               Cardinality({i \in 1..(frame.pos - 1) :
                 /\ frame.cb[i].id = id
                 /\ \/ fields[id].is_extension
                    \/ frame.allowed_fields.null
                    \/ id \in frame.allowed_fields.tags})
         IN  /\ \A id \in DOMAIN fields :
                  IndexOf(frame.repeated_field_index, id) =
                    IF fields[id].is_repeated THEN Processed(id) ELSE 0
             /\ frame.pc = "field" /\ k < Len(stack) =>
                  stack[k + 1].repeated_field_number =
                    IF fields[frame.cb[frame.pos].id].is_repeated
                    THEN Processed(frame.cb[frame.pos].id) ELSE 0
  /\ Done /\ ret.value.ok =>
       \A id \in DOMAIN pool_[call.type].fields :
         LET fd == pool_[call.type].fields[id]
             Mine(e) == /\ IsDelegateCall(e)
                        /\ Len(e.at) = 1
                        /\ e.at[1].field_descriptor = fd
             mine == SelectSeq(trace, Mine)
         IN  /\ fd.is_repeated
             /\ fd.type # "TYPE_MESSAGE"
             /\ fd.is_extension \/ call.allowed_fields.null
                  \/ id \in call.allowed_fields.tags
             => /\ Len(mine) = Occurrences(call.cb, id, Len(call.cb))
                /\ \A i \in 1..Len(mine) :
                     mine[i].key =
                       [flat_key |-> fd.name,
                        key |-> ((fd.name \o "[") \o to_string(i - 1)) \o "]"]

\* C3 witness: y, x, y was decoded: y[0], x, y[1].
C3_Witness ==
  /\ Done /\ ret.value.ok
  /\ call.type = "M"
  /\ Len(call.cb) = 3
  /\ call.cb[1].id = 2 /\ call.cb[2].id = 1 /\ call.cb[3].id = 2
  /\ Len(trace) = 3
  /\ trace[1].key.key = "y[0]"
  /\ trace[2].key.key = "x"
  /\ trace[3].key.key = "y[1]"

\* C4: a wire field with a descriptor is handed to ParseField if and only
\* if it is an extension, no allowlist was given, or its tag is in the
\* allowlist; any other such field is stepped over: no Delegate call, no
\* handler invocation, no change of key_prefix_ or of the counters, and no
\* failure.
C4_AllowlistFilter ==
  [][(/\ In("ParseMessage", "read")
      /\ Top.pos <= Len(Top.cb)
      /\ Top.cb[Top.pos].id \in DOMAIN pool_[Top.type].fields)
       => LET f == Top.cb[Top.pos]
              fd == pool_[Top.type].fields[f.id]
          IN  IF \/ fd.is_extension
                 \/ Top.allowed_fields.null
                 \/ f.id \in Top.allowed_fields.tags
              THEN /\ Len(stack') = Len(stack) + 1
                   /\ Last(stack').fn = "ParseField"
                   /\ Last(stack').field_descriptor = fd
                   /\ Last(stack').field = f
              ELSE /\ stack' = SetTop([Top EXCEPT !.pos = @ + 1])
                   /\ UNCHANGED <<key_prefix_, ret, trace, overrides_>>]_vars

\* C4 witness: under the allowlist {3}, y was stepped over and child was
\* processed.
C4_Witness ==
  /\ Len(stack) = 1
  /\ In("ParseMessage", "read")
  /\ ~Top.allowed_fields.null
  /\ Top.type = "M"
  /\ Top.pos = 3
  /\ Top.cb[1].id = 2 /\ Top.cb[2].id = 3
  /\ IndexOf(Top.repeated_field_index, 2) = 0
  /\ Len(trace) = 1
  /\ trace[1].key.key = "child.flag"

\* C5: every ParseMessage call but the top-level one runs with no
\* allowlist; so a successful top-level call on M with the allowlist {3}
\* has emitted every flag (tag 1) of every child (tag 3).
C5_AllowlistScoping ==
  /\ \A k \in 2..Len(stack) :
       stack[k].fn = "ParseMessage" => stack[k].allowed_fields.null
  /\ /\ Done /\ ret.value.ok
     /\ call.type = "M"
     /\ call.allowed_fields = AllowedVector({3})
     => /\ Len(trace) = FlagsOfChildren(call.cb)
        /\ \A i \in 1..Len(trace) :
             /\ trace[i].fn = "AddBoolean"
             /\ trace[i].key = [flat_key |-> "child.flag", key |-> "child.flag"]

\* C5 witness: under the allowlist {3}, x (tag 1) was stepped over and the
\* flag (tag 1) of a child was emitted.
C5_Witness ==
  /\ Done /\ ret.value.ok
  /\ call.allowed_fields = AllowedVector({3})
  /\ Len(call.cb) = 2
  /\ call.cb[1].id = 1
  /\ call.cb[2].id = 3 /\ Len(call.cb[2].bytes) = 1
  /\ Len(trace) = 1

\* The flat key of the ParseField call at its first line.
FlatKeyOfField == ExpectedKey(Chain(stack)).flat_key

\* ParseField is at its first line for a field whose flat key has a
\* handler registered, one of those in funcs.
HandlerMatches(funcs) ==
  /\ In("ParseField", "enter")
  /\ FlatKeyOfField \in DOMAIN overrides_
  /\ overrides_[FlatKeyOfField] \in funcs

\* The step of ParseField invoked the handler and nothing else: no
\* Delegate call, no recursive ParseMessage, and ParseField has returned.
OnlyHandlerRan ==
  /\ stack' = Pop
  /\ Len(trace') = Len(trace) + 1
  /\ Last(trace').fn = "ParsingOverride"
  /\ Last(trace').value = overrides_[FlatKeyOfField]
  /\ Last(trace').at = Chain(stack)

\* C6: when the handler registered at the flat key of a field returns a
\* status, ParseField returns exactly that status, having made no Delegate
\* call and no recursive ParseMessage call, message field or not.
C6_OverridePrecedence ==
  [][HandlerMatches({"ReturnsOk", "ReturnsErr"})
       => /\ OnlyHandlerRan
          /\ ret' = InvokeOverride(overrides_[FlatKeyOfField], Top.field)]_vars

\* C6 witness: the handler at m.child returned success for a child with
\* fields in it, and ParseField returned with nothing emitted.
C6_Witness ==
  /\ Len(stack) = 3
  /\ In("ParseMessage", "field")
  /\ ret.has_value /\ ret.value.ok
  /\ Top.cb[Top.pos].id = 3
  /\ Top.cb[Top.pos].bytes # <<>>
  /\ Len(trace) = 1
  /\ trace[1].fn = "ParsingOverride"
  /\ trace[1].value = "ReturnsOk"
  /\ trace[1].key = [flat_key |-> "m.child", key |-> "m[0].child"]

C8_FailFast ==
  [][(stack # <<>> /\ ret.has_value /\ ~ret.value.ok)
       => /\ stack' = Pop
          /\ ret' = ret
          /\ trace' = trace]_vars

\* C8 witness: g (unsupported type) then flag was decoded: the call
\* returned the failure of g and flag was never emitted.
C8_Witness ==
  /\ Done /\ ~ret.value.ok
  /\ call.type = "C" /\ call.allowed_fields.null
  /\ Len(call.cb) = 2
  /\ call.cb[1].id = 2 /\ call.cb[2].id = 1
  /\ trace = <<>>

\* C9: a wire field whose tag has no descriptor in the message is stepped
\* over: no Delegate call, no handler invocation, key_prefix_ and the
\* counters unchanged, no failure, and the loop is at the next wire field.
C9_UnknownFieldSkip ==
  [][(/\ In("ParseMessage", "read")
      /\ Top.pos <= Len(Top.cb)
      /\ Top.cb[Top.pos].id \notin DOMAIN pool_[Top.type].fields)
       => /\ stack' = SetTop([Top EXCEPT !.pos = @ + 1])
          /\ UNCHANGED <<key_prefix_, ret, trace, overrides_>>]_vars

\* C9 witness: inside the first m, y and then a field of the unknown tag 9
\* were read; the loop is past both with the counter of y at 1.
C9_Witness ==
  /\ Len(stack) = 3
  /\ In("ParseMessage", "read")
  /\ Top.pos = 3
  /\ Top.cb[1].id = 2 /\ Top.cb[2].id = 9
  /\ IndexOf(Top.repeated_field_index, 2) = 1
  /\ key_prefix_.key = "m[0]"
  /\ Len(trace) = 1

\* The wire fields of cb, among the first n, that ParseMessage hands to
\* ParseField under the allowlist of the top-level call.
ProcessedOfCall(n) ==
  Cardinality({i \in 1..n :
    /\ call.cb[i].id \in DOMAIN pool_[call.type].fields
    /\ \/ pool_[call.type].fields[call.cb[i].id].is_extension
       \/ call.allowed_fields.null
       \/ call.cb[i].id \in call.allowed_fields.tags})

\* C10: an enum field is emitted by AddString with the name of its value
\* if the enum type is in the pool and names the value, and by AddInteger
\* with the value otherwise, never with an empty string; it is emitted
\* exactly once and never fails: in a call on S, whose fields are enums
\* and an unsigned extension, there are as many Delegate calls as fields
\* processed and no failure.
C10_EnumFallback ==
  /\ \A i \in 1..Len(trace) :
       LET fd == Last(trace[i].at).field_descriptor
           value == Last(trace[i].at).field.int
       IN  fd.type = "TYPE_ENUM" =>
             IF /\ fd.resolved_type_name \in DOMAIN pool_
                /\ value \in DOMAIN pool_[fd.resolved_type_name].enum_values
             THEN /\ trace[i].fn = "AddString"
                  /\ trace[i].value =
                       pool_[fd.resolved_type_name].enum_values[value]
                  /\ trace[i].value # ""
             ELSE /\ trace[i].fn = "AddInteger"
                  /\ trace[i].value = value
  /\ call.type = "S" =>
       /\ ret.has_value => ret.value.ok
       /\ Done => Len(trace) = ProcessedOfCall(Len(call.cb))
       /\ stack # <<>> /\ stack[1].pc # "find" =>
            Len(trace) =
              ProcessedOfCall(IF Len(stack) = 1 /\ stack[1].pc = "field"
                              THEN stack[1].pos ELSE stack[1].pos - 1)

\* C10 witness: e = 0, e = 1 and u = 0 were decoded: the name of 0, the
\* integer 1 that E does not name, and the integer 0 of the unknown type.
C10_Witness ==
  /\ Done /\ ret.value.ok
  /\ call.type = "S"
  /\ Len(trace) = 3
  /\ trace[1].fn = "AddString" /\ trace[1].value = "ZERO"
  /\ trace[1].key = [flat_key |-> "e", key |-> "e[0]"]
  /\ trace[2].fn = "AddInteger" /\ trace[2].value = 1
  /\ trace[2].key = [flat_key |-> "e", key |-> "e[1]"]
  /\ trace[3].fn = "AddInteger" /\ trace[3].value = 0
  /\ trace[3].key = [flat_key |-> "u", key |-> "u"]

----------------------------------------------------------------------------
\* The failure of ParseMessage for a type the pool does not have.
SchemaNotFound == ErrStatus("Failed to find proto descriptor")

\* The empty Key, and a Key with the segment of one more field.
EmptyKey == [flat_key |-> "", key |-> ""]

Extended(key_prefix, field_descriptor, index) ==
  LET With(dest, segment) ==
        IF dest = "" THEN segment ELSE (dest \o ".") \o segment
  IN  [flat_key |-> With(key_prefix.flat_key, field_descriptor.name),
       key |-> With(key_prefix.key,
                    KeySegment([field_descriptor |-> field_descriptor,
                                repeated_field_number |-> index]))]

\* The method, Key and value of each trace entry.
Emissions(entries) ==
  [i \in 1..Len(entries) |->
     [fn |-> entries[i].fn, key |-> entries[i].key,
      value |-> entries[i].value]]

IsPrefix(s, t) == Len(s) <= Len(t) /\ s = SubSeq(t, 1, Len(s))

RECURSIVE Flatten(_)
Flatten(seqs) ==
  IF seqs = <<>> THEN <<>> ELSE Head(seqs) \o Flatten(Tail(seqs))

\* The emissions of a message in wire order, depth first: those of each
\* field, those of the message in it included, before those of the next.
RECURSIVE DepthFirst(_, _, _)
DepthFirst(type, cb, key_prefix) ==
  IF type \notin DOMAIN pool_ THEN <<>>
  ELSE Flatten(
         [i \in 1..Len(cb) |->
            IF cb[i].id \notin DOMAIN pool_[type].fields THEN <<>>
            ELSE LET fd == pool_[type].fields[cb[i].id]
                     key == Extended(key_prefix, fd,
                                     Occurrences(cb, cb[i].id, i - 1))
                 IN  IF fd.type = "TYPE_MESSAGE"
                     THEN DepthFirst(fd.resolved_type_name, cb[i].bytes, key)
                     ELSE ParseSimpleField(fd, cb[i], key).calls])

\* No handler is registered at the flat key of the ParseField call at its
\* first line.
NoHandler == In("ParseField", "enter") /\ FlatKeyOfField \notin DOMAIN overrides_

\* The step of ParseField made the one Delegate call fn(key, value), with
\* the Key of the calls in progress, and returned success.
EmittedOnce(fn, value) ==
  /\ stack' = Pop
  /\ ret' = Some(OkStatus)
  /\ trace' = Append(trace, [fn |-> fn, key |-> ExpectedKey(Chain(stack)),
                             value |-> value, at |-> Chain(stack)])

\* C11: ParseMessage on a type the pool does not have returns a failure at
\* once, top-level call or recursive call for a message field: no Delegate
\* call, no handler invocation, key_prefix_ unchanged; and from then on
\* every step is the return of the next enclosing call with that failure,
\* up to the top-level caller.
C11_SchemaNotFound ==
  [][/\ (In("ParseMessage", "find") /\ Top.type \notin DOMAIN pool_)
          => /\ stack' = Pop
             /\ ret' = Some(SchemaNotFound)
             /\ UNCHANGED <<trace, key_prefix_, overrides_>>
     /\ (stack # <<>> /\ ret = Some(SchemaNotFound))
          => /\ stack' = Pop
             /\ ret' = ret
             /\ trace' = trace]_vars

\* C11 witness: in D, n and then d holding n and lost were decoded; the
\* type of lost is not in the pool, the top-level call returned that
\* failure and the n after d was never emitted.
C11_Witness ==
  /\ Done
  /\ ret = Some(SchemaNotFound)
  /\ call.type = "D" /\ Len(call.cb) = 3
  /\ Len(trace) = 2
  /\ trace[2].key.key = "d.n"
  /\ key_prefix_ = EmptyKey

\* C12: with no allowlist and no handler, what the Delegate has seen is at
\* every moment a prefix of the emissions of the message in wire order,
\* depth first, and all of them once the call has returned success; for
\* the end-to-end example they are AddInteger(x, x, 5),
\* AddString(y[0], y, p), AddString(y[1], y, q) and
\* AddBoolean(child.flag, child.flag, true), and the call returns success.
C12_EndToEndOrder ==
  /\ (call.allowed_fields.null /\ DOMAIN overrides_ = {}) =>
       LET expected == DepthFirst(call.type, call.cb, EmptyKey)
       IN  /\ IsPrefix(Emissions(trace), expected)
           /\ Done /\ ret.value.ok => Emissions(trace) = expected
  /\ (Done /\ call = EndToEnd /\ DOMAIN overrides_ = {}) =>
       /\ ret.value = OkStatus
       /\ Emissions(trace) =
            << [fn |-> "AddInteger",
                key |-> [flat_key |-> "x", key |-> "x"], value |-> 5],
               [fn |-> "AddString",
                key |-> [flat_key |-> "y", key |-> "y[0]"], value |-> "p"],
               [fn |-> "AddString",
                key |-> [flat_key |-> "y", key |-> "y[1]"], value |-> "q"],
               [fn |-> "AddBoolean",
                key |-> [flat_key |-> "child.flag", key |-> "child.flag"],
                value |-> TRUE] >>

\* C12 witness: the call on the end-to-end example has returned, with no
\* handler registered, after four emissions.
C12_Witness ==
  /\ Done
  /\ call = EndToEnd
  /\ DOMAIN overrides_ = {}
  /\ Len(trace) = 4
  /\ trace[4].fn = "AddBoolean"

\* C13 as stated: a field declared string or bytes, with no handler at its
\* flat key, is emitted by exactly one AddString call that carries its
\* payload, and ParseSimpleField returns success.
C13_StringAndBytes ==
  [][(NoHandler /\ Top.field_descriptor.type \in {"TYPE_STRING", "TYPE_BYTES"})
       => EmittedOnce("AddString", Top.field.str)]_vars

\* The Delegate method of each declared type of the dispatch table that is
\* a number or a boolean.
ScalarMethod ==
  [t \in {"TYPE_INT32", "TYPE_SFIXED32", "TYPE_FIXED32", "TYPE_SINT32",
          "TYPE_INT64", "TYPE_SFIXED64", "TYPE_FIXED64", "TYPE_SINT64",
          "TYPE_UINT32", "TYPE_UINT64", "TYPE_BOOL", "TYPE_DOUBLE",
          "TYPE_FLOAT"} |->
     CASE t \in {"TYPE_UINT32", "TYPE_UINT64"} -> "AddUnsignedInteger"
       [] t = "TYPE_BOOL"                      -> "AddBoolean"
       [] t \in {"TYPE_DOUBLE", "TYPE_FLOAT"}  -> "AddDouble"
       [] OTHER                                -> "AddInteger"]

\* C14: a field of a numeric or boolean declared type, with no handler at
\* its flat key, is emitted by exactly one Delegate call, of the method its
\* declared type alone decides, with the Key of the calls in progress, and
\* ParseSimpleField returns success.
C14_ScalarDispatch ==
  [][(NoHandler /\ Top.field_descriptor.type \in DOMAIN ScalarMethod)
       => /\ stack' = Pop
          /\ ret' = Some(OkStatus)
          /\ Len(trace') = Len(trace) + 1
          /\ Front(trace') = trace
          /\ Last(trace').fn = ScalarMethod[Top.field_descriptor.type]
          /\ Last(trace').key = ExpectedKey(Chain(stack))
          /\ Last(trace').at = Chain(stack)]_vars

\* C14 witness: the uint64 field of A was emitted by AddUnsignedInteger.
C14_Witness ==
  /\ Done /\ ret.value.ok
  /\ call.type = "A"
  /\ Len(trace) = 1
  /\ trace[1].fn = "AddUnsignedInteger"
  /\ trace[1].key = [flat_key |-> "u64", key |-> "u64"]
  /\ trace[1].value = 7

\* The declared types of the dispatch table.
DispatchTable == DOMAIN ScalarMethod \cup {"TYPE_STRING", "TYPE_BYTES"}

\* The status is the failure of ParseSimpleField's default case.
IsUnsupportedFieldType(status) ==
  /\ ~status.ok
  /\ Len(status.message) >= 35
  /\ SubSeq(status.message, 1, 35) = "Tried to write value of type field "

\* C15: for a field whose declared type is neither in the dispatch table
\* nor message nor enum, with no handler at its flat key, ParseField
\* returns a failure and makes no Delegate call; and from then on every
\* step is the return of the next enclosing call with that failure, at
\* whatever depth it arose, up to the top-level caller.
C15_UnsupportedFieldType ==
  [][/\ (/\ NoHandler
         /\ Top.field_descriptor.type \notin
              DispatchTable \cup {"TYPE_MESSAGE", "TYPE_ENUM"})
          => /\ stack' = Pop
             /\ ret'.has_value
             /\ IsUnsupportedFieldType(ret'.value)
             /\ trace' = trace
     /\ (stack # <<>> /\ ret.has_value /\ IsUnsupportedFieldType(ret.value))
          => /\ stack' = Pop
             /\ ret' = ret
             /\ trace' = trace]_vars

\* C15 witness: the group field g of the child of an m failed, three
\* messages down, and the top-level call returned that failure with
\* nothing emitted.
C15_Witness ==
  /\ Done
  /\ IsUnsupportedFieldType(ret.value)
  /\ call.type = "M" /\ Len(call.cb) = 1
  /\ call.cb[1].id = 4 /\ Len(call.cb[1].bytes) = 1
  /\ call.cb[1].bytes[1].id = 3
  /\ call.cb[1].bytes[1].bytes # <<>>
  /\ call.cb[1].bytes[1].bytes[1].id = 2
  /\ trace = <<>>

\* Every emission of a repeated field carries the number of the emissions
\* of that field made before it under the same occurrence of the same
\* enclosing fields.
IndexedWithinMessage(entries) ==
  \A i \in 1..Len(entries) :
    LET c == entries[i].at
        Sibling(j) ==
          /\ IsDelegateCall(entries[j])
          /\ Len(entries[j].at) = Len(c)
          /\ Front(entries[j].at) = Front(c)
          /\ Last(entries[j].at).field_descriptor = Last(c).field_descriptor
    IN  (IsDelegateCall(entries[i]) /\ Last(c).field_descriptor.is_repeated)
          => entries[i].key =
               Extended(ExpectedKey(Front(c)), Last(c).field_descriptor,
                        Cardinality({j \in 1..(i - 1) : Sibling(j)}))

\* C16: every ParseMessage call starts with an empty repeated_field_index,
\* no step changes the counters of a frame below the running one, so a
\* recursive call leaves those of its caller as they were; and the
\* emissions of a repeated field are numbered from 0 within each
\* occurrence of the message that holds them.
C16_CountersPerFrame ==
  [][/\ \A k \in 1..(Len(stack) - 1) :
          (k <= Len(stack') /\ stack[k].fn = "ParseMessage")
            => stack'[k].repeated_field_index = stack[k].repeated_field_index
     /\ (Len(stack') > Len(stack) /\ Last(stack').fn = "ParseMessage")
          => DOMAIN Last(stack').repeated_field_index = {}
     /\ IndexedWithinMessage(trace')]_vars

\* C16 witness: two m, the first with y twice and the second with y once:
\* m[0].y[0], m[0].y[1], m[1].y[0].
C16_Witness ==
  /\ Done /\ ret.value.ok
  /\ Len(trace) = 3
  /\ trace[1].key = [flat_key |-> "m.y", key |-> "m[0].y[0]"]
  /\ trace[2].key = [flat_key |-> "m.y", key |-> "m[0].y[1]"]
  /\ trace[3].key = [flat_key |-> "m.y", key |-> "m[1].y[0]"]

\* The handlers seen in entries are those a lookup of the exact flat key
\* gives: a handler was invoked only for a field whose flat key is a
\* registered path, and it was the handler overrides_ holds for that path;
\* and wherever the flat key of a field is a registered path, its handler
\* was invoked before anything was done for the field or below it, and
\* returned no status.
LookupIsExact(entries) ==
  \A i \in 1..Len(entries) :
    /\ entries[i].fn = "ParsingOverride" =>
         LET flat_key == ExpectedKey(entries[i].at).flat_key
         IN  /\ flat_key \in DOMAIN overrides_
             /\ entries[i].value = overrides_[flat_key]
             /\ entries[i].key.flat_key = flat_key
    /\ \A k \in 1..Len(entries[i].at) :
         LET enclosing == SubSeq(entries[i].at, 1, k)
             flat_key == ExpectedKey(enclosing).flat_key
         IN  (/\ flat_key \in DOMAIN overrides_
              /\ ~(k = Len(entries[i].at) /\ entries[i].fn = "ParsingOverride"))
               => /\ overrides_[flat_key] = "ReturnsNullopt"
                  /\ \E j \in 1..(i - 1) :
                       /\ entries[j].fn = "ParsingOverride"
                       /\ entries[j].at = enclosing

\* C17: AddParsingOverride(field, func) makes func the handler of the path
\* field, replacing the one it had, and leaves the handlers of all other
\* paths as they were; nothing else changes overrides_; and the handler
\* applied to a field is the one overrides_ holds for a path equal to the
\* flat key of the field, none if there is no such path: not one at a
\* prefix of the flat key, at a longer path or at the indexed key.
C17_OverrideLookup ==
  [][/\ IF Idle /\ Idle'
        THEN overrides_' =
               [path \in DOMAIN overrides_ \cup {call'.field} |->
                  IF path = call'.field THEN call'.func ELSE overrides_[path]]
        ELSE overrides_' = overrides_
     /\ LookupIsExact(trace')]_vars

\* C17 witness: with a handler at m that returns no status, the handler
\* was invoked for m and for nothing below it: flag of the child of the
\* first m was emitted.
C17_Witness ==
  /\ Done /\ ret.value.ok
  /\ overrides_ = ("m" :> "ReturnsNullopt")
  /\ Len(trace) = 2
  /\ trace[1].fn = "ParsingOverride"
  /\ trace[1].key = [flat_key |-> "m", key |-> "m[0]"]
  /\ trace[2].fn = "AddBoolean"
  /\ trace[2].key = [flat_key |-> "m.child.flag", key |-> "m[0].child.flag"]

\* What a ParseMessage call on a parser just constructed, with the handlers
\* of overrides_, shows its Delegate and its handlers, and the status it
\* returns, as a function of its arguments: the fields in wire order, each
\* skipped, handed to its handler, descended into or emitted, up to the
\* first failure.
RECURSIVE Reference(_, _, _, _)
RECURSIVE ReferenceFrom(_, _, _, _, _)
Reference(type, cb, allowed_fields, key_prefix) ==
  IF type \notin DOMAIN pool_
  THEN [calls |-> <<>>, status |-> SchemaNotFound]
  ELSE ReferenceFrom(type, cb, allowed_fields, key_prefix, 1)

ReferenceFrom(type, cb, allowed_fields, key_prefix, i) ==
  IF i > Len(cb) THEN [calls |-> <<>>, status |-> OkStatus]
  ELSE IF \/ cb[i].id \notin DOMAIN pool_[type].fields
          \/ ~(\/ pool_[type].fields[cb[i].id].is_extension
               \/ allowed_fields.null
               \/ cb[i].id \in allowed_fields.tags)
  THEN ReferenceFrom(type, cb, allowed_fields, key_prefix, i + 1)
  ELSE LET fd == pool_[type].fields[cb[i].id]
           key == Extended(key_prefix, fd, Occurrences(cb, cb[i].id, i - 1))
           handled == key.flat_key \in DOMAIN overrides_
           invocation ==
             IF handled
             THEN <<[fn |-> "ParsingOverride", key |-> key,
                     value |-> overrides_[key.flat_key]]>>
             ELSE <<>>
           status ==
             IF handled THEN InvokeOverride(overrides_[key.flat_key], cb[i])
             ELSE nullopt
           own ==
             IF status.has_value
             THEN [calls |-> <<>>, status |-> status.value]
             ELSE IF fd.type = "TYPE_MESSAGE"
             THEN Reference(fd.resolved_type_name, cb[i].bytes, nullptr, key)
             ELSE ParseSimpleField(fd, cb[i], key)
           rest ==
             IF own.status.ok
             THEN ReferenceFrom(type, cb, allowed_fields, key_prefix, i + 1)
             ELSE [calls |-> <<>>, status |-> own.status]
       IN  [calls |-> (invocation \o own.calls) \o rest.calls,
            status |-> rest.status]

\* C20: between top-level calls key_prefix_ is empty, as in a parser just
\* constructed, whatever calls were made before and however they ended;
\* so what a top-level ParseMessage call shows the Delegate and the
\* handlers, and the status it returns, are those of a call with the same
\* arguments on a parser just constructed with the same handlers.
C20_InstanceReuse ==
  /\ stack = <<>> => key_prefix_ = EmptyKey
  /\ Done =>
       LET fresh == Reference(call.type, call.cb, call.allowed_fields,
                              EmptyKey)
       IN  /\ Emissions(trace) = fresh.calls
           /\ ret.value = fresh.status

\* C20 witness: a call failed three messages down, in the child of an m,
\* after an emission made under the prefix m[0]; it has returned and
\* key_prefix_ is empty again.
C20_Witness ==
  /\ Done /\ ~ret.value.ok
  /\ Len(call.cb) = 1 /\ call.cb[1].id = 4
  /\ Len(call.cb[1].bytes) = 2
  /\ call.cb[1].bytes[1].id = 1
  /\ call.cb[1].bytes[2].id = 3
  /\ Len(trace) = 1
  /\ trace[1].key.key = "m[0].x"
  /\ key_prefix_ = EmptyKey

\* The largest element of a non-empty set of numbers.
Max(S) == CHOOSE n \in S : \A k \in S : k <= n

\* The nesting depth of a message: 1 for a message that holds no message
\* field, one more than its deepest message field otherwise.
RECURSIVE NestingDepth(_, _)
NestingDepth(type, cb) ==
  IF type \notin DOMAIN pool_ THEN 1
  ELSE 1 + Max({0} \cup
                { NestingDepth(pool_[type].fields[cb[i].id].resolved_type_name,
                               cb[i].bytes) :
                    i \in { j \in 1..Len(cb) :
                              /\ cb[j].id \in DOMAIN pool_[type].fields
                              /\ pool_[type].fields[cb[j].id].type =
                                   "TYPE_MESSAGE" } })

\* The number of ParseMessage calls in progress.
ActiveParseMessages ==
  Cardinality({k \in 1..Len(stack) : stack[k].fn = "ParseMessage"})

\* C18: a top-level ParseMessage call returns: with success, or with the
\* first failure met in wire order; and while it runs the number of
\* ParseMessage calls in progress is at most the nesting depth of the
\* message it was given.
C18_Termination ==
  /\ [](/\ ActiveParseMessages <= NestingDepth(call.type, call.cb)
        /\ Done => ret.value = Reference(call.type, call.cb,
                                         call.allowed_fields, EmptyKey).status)
  /\ (stack # <<>>) ~> Done

\* C18 witness: the call on the message that fails three m down, with a
\* field after it, has returned that failure.
C18_Witness ==
  /\ Done /\ ~ret.value.ok
  /\ call.type = "M" /\ Len(call.cb) = 2
  /\ NestingDepth(call.type, call.cb) = 4
  /\ trace = <<>>

\* The nesting depth of the deepest message a caller passes.
DeepestNesting == Max({NestingDepth(c.type, c.cb) : c \in Calls})

\* C19 as stated, for the messages a caller passes: there is a depth D,
\* less than the nesting depth of the deepest of them, that the number of
\* ParseMessage calls in progress never exceeds.
C19_NestingGuard ==
  \E D \in 1..(DeepestNesting - 1) : ActiveParseMessages <= D

====
